---- MODULE Spec2Model ----
(***************************************************************************)
(* Model of the post-conversion passes of convert-to-md.py.                *)
(*                                                                         *)
(* XML text is modelled as sequences of markup tokens (a tag with its      *)
(* identifier attribute, a text run, whitespace); a body is a sequence of  *)
(* lines, each line a sequence of tokens.  Markdown text is modelled as a  *)
(* sequence of characters.  uuid.uuid4() is a nondeterministic choice.     *)
(***************************************************************************)
EXTENDS Integers, Sequences, FiniteSets, TLC

(***************************************************************************)
(* Bounds                                                                  *)
(***************************************************************************)
MaxLines == 4

MaxWrapped == 7

\* the tokens uuid.uuid4().hex may return
Uuid == {"u1", "u2"}

(***************************************************************************)
(* XML tokens and lines                                                    *)
(***************************************************************************)
Tok(t, tag, id) == [t |-> t, tag |-> tag, id |-> id, href |-> "", mime |-> ""]

NoId == <<>>

WS == Tok("ws", "", NoId)

\* a newline
NL == Tok("ws", "\n", NoId)

Open(tag, id) == Tok("open", tag, id)

Close(tag) == Tok("close", tag, NoId)

Text(v) == Tok("text", v, NoId)

IsWs(tok) == tok.t = "ws"

\* str.strip() on a line
RECURSIVE LStrip(_)
LStrip(s) == IF s # <<>> /\ IsWs(Head(s)) THEN LStrip(Tail(s)) ELSE s

RECURSIVE RStrip(_)
RStrip(s) ==
    IF s # <<>> /\ IsWs(s[Len(s)]) THEN RStrip(SubSeq(s, 1, Len(s) - 1)) ELSE s

Strip(s) == RStrip(LStrip(s))

\* line_stripped.startswith('<sec')
StartsWithSec(s) == s # <<>> /\ s[1].t = "open" /\ s[1].tag = "sec"

\* line_stripped.startswith('</sec>')
StartsWithSecClose(s) == s # <<>> /\ s[1].t = "close" /\ s[1].tag = "sec"

\* 'id=' in line_stripped
ContainsIdAttr(s) == \E k \in DOMAIN s : s[k].t = "open" /\ s[k].id # NoId

\* f"heading-{uuid.uuid4().hex}"
HeadingId(u) == <<"heading-", u>>

\* line_stripped.replace('<sec', f'<sec id="{section_id}"')
InjectId(s, id) ==
    [k \in DOMAIN s |->
        IF s[k].t = "open" /\ s[k].tag = "sec" THEN [s[k] EXCEPT !.id = id]
        ELSE s[k]]

\* f'  <sec id="{section_id}">'
SynthOpen(u) == <<WS, Open("sec", HeadingId(u))>>

\* '  </sec>'
SynthClose == <<WS, Close("sec")>>

(***************************************************************************)
(* Input lines of the section wrapper                                      *)
(***************************************************************************)
Blank == <<>>

BlankWs == <<WS>>

SecA == <<Open("sec", <<"a">>)>>

SecB == <<WS, Open("sec", <<"b">>)>>

SecNoId == <<Open("sec", NoId)>>

SecClose == <<Close("sec")>>

P1 == <<Open("p", NoId), Text("orphan1"), Close("p")>>

P2 == <<Open("p", NoId), Text("orphan2"), Close("p")>>

\* <sec><title>X</title></sec>
SecOneLine ==
    <<Open("sec", NoId), Open("title", NoId), Text("X"), Close("title"),
      Close("sec")>>

\* <sec><title id="t">X</title>
SecTitleId ==
    <<Open("sec", NoId), Open("title", <<"t">>), Text("X"), Close("title")>>

LineSet ==
    {Blank, BlankWs, SecA, SecB, SecNoId, SecClose, P1, P2, SecOneLine,
     SecTitleId}

WrappedLineSet == {Blank, SecA, SecB, SecClose, P1}

SeqsUpTo(S, n) == UNION {[1..k -> S] : k \in 0..n}

VARIABLES lines, wpos, result_lines, current_section, in_section, wpc,
          xml, fpos, fout, fpc,
          call, input, content, previous_content, mpc,
          pc, input_ext, pandoc_installed, input_exists, result,
          output_exists, output_file, written, success

wrapVars == <<lines, wpos, result_lines, current_section, in_section, wpc>>

figVars == <<xml, fpos, fout, fpc>>

mdVars == <<call, input, content, previous_content, mpc>>

\* main and the two convert functions: the position in them, the command
\* line and the file system, the outcome of the engine call, the return value
mainVars ==
    <<pc, input_ext, pandoc_installed, input_exists, result, output_exists,
      output_file, written, success>>

vars == <<wrapVars, figVars, mdVars, mainVars>>

\* the passes that are not running
NoWrap == UNCHANGED <<wrapVars, mdVars, mainVars>>

NoFig == UNCHANGED <<figVars, mdVars, mainVars>>

NoXml == UNCHANGED <<wrapVars, figVars, mainVars>>

WrapIdle ==
    /\ lines = <<>>
    /\ wpos = 0
    /\ result_lines = <<>>
    /\ current_section = <<>>
    /\ in_section = FALSE
    /\ wpc = "idle"

FigIdle ==
    /\ xml = <<>>
    /\ fpos = 0
    /\ fout = <<>>
    /\ fpc = "idle"

MdIdle ==
    /\ call = "none"
    /\ input = <<>>
    /\ content = <<>>
    /\ previous_content = <<>>
    /\ mpc = "idle"

\* a pass called on its own, outside main
MainIdle ==
    /\ pc = "idle"
    /\ input_ext = ""
    /\ pandoc_installed = TRUE
    /\ input_exists = TRUE
    /\ result = "None"
    /\ output_exists = FALSE
    /\ output_file = <<>>
    /\ written = FALSE
    /\ success = "None"

(***************************************************************************)
(* wrap_body_content_in_sections.wrap_body_content                         *)
(***************************************************************************)
line == lines[wpos]

line_stripped == Strip(line)

\* body_content.strip() is empty
BodyIsBlank(ls) == \A k \in DOMAIN ls : Strip(ls[k]) = <<>>

\* if not body_content.strip(): return the body as is
WrapEmptyBody ==
    /\ wpc = "start"
    /\ BodyIsBlank(lines)
    /\ result_lines' = lines
    /\ wpc' = "done"
    /\ UNCHANGED <<lines, wpos, current_section, in_section>>
    /\ NoFig

WrapStart ==
    /\ wpc = "start"
    /\ ~BodyIsBlank(lines)
    /\ wpc' = "loop"
    /\ UNCHANGED <<lines, wpos, result_lines, current_section, in_section>>
    /\ NoFig

\* a blank line handler that appends to the orphan buffer unconditionally
BlankLineAlwaysAppend ==
    /\ wpc = "loop"
    /\ wpos <= Len(lines)
    /\ line_stripped = <<>>
    /\ current_section' = Append(current_section, line)
    /\ wpos' = wpos + 1
    /\ UNCHANGED <<lines, result_lines, in_section, wpc>>
    /\ NoFig

\* if not line_stripped: if current_section: current_section.append(line)
BlankLine ==
    /\ wpc = "loop"
    /\ wpos <= Len(lines)
    /\ line_stripped = <<>>
    /\ current_section' =
           IF current_section # <<>> THEN Append(current_section, line)
           ELSE current_section
    /\ wpos' = wpos + 1
    /\ UNCHANGED <<lines, result_lines, in_section, wpc>>
    /\ NoFig

\* result_lines after flushing the orphan buffer into a synthesized section
Flushed(u) == result_lines \o <<SynthOpen(u)>> \o current_section \o <<SynthClose>>

\* the section-open line as it is emitted
EmittedOpen(l, u) ==
    IF ContainsIdAttr(Strip(l)) THEN l ELSE InjectId(Strip(l), HeadingId(u))

\* if line_stripped.startswith('<sec')
SecOpenLine ==
    /\ wpc = "loop"
    /\ wpos <= Len(lines)
    /\ line_stripped # <<>>
    /\ StartsWithSec(line_stripped)
    /\ \E u1, u2 \in Uuid :
          LET flushed == IF current_section # <<>> /\ ~in_section
                         THEN Flushed(u1) ELSE result_lines
          IN  result_lines' = Append(flushed, EmittedOpen(line, u2))
    /\ in_section' = TRUE
    /\ current_section' = <<>>
    /\ wpos' = wpos + 1
    /\ UNCHANGED <<lines, wpc>>
    /\ NoFig

\* elif line_stripped.startswith('</sec>')
SecCloseLine ==
    /\ wpc = "loop"
    /\ wpos <= Len(lines)
    /\ line_stripped # <<>>
    /\ ~StartsWithSec(line_stripped)
    /\ StartsWithSecClose(line_stripped)
    /\ result_lines' = Append(result_lines, line)
    /\ in_section' = FALSE
    /\ current_section' = <<>>
    /\ wpos' = wpos + 1
    /\ UNCHANGED <<lines, wpc>>
    /\ NoFig

\* else: regular content line
ContentLine ==
    /\ wpc = "loop"
    /\ wpos <= Len(lines)
    /\ line_stripped # <<>>
    /\ ~StartsWithSec(line_stripped)
    /\ ~StartsWithSecClose(line_stripped)
    /\ IF in_section
       THEN /\ result_lines' = Append(result_lines, line)
            /\ UNCHANGED current_section
       ELSE /\ current_section' = Append(current_section, line)
            /\ UNCHANGED result_lines
    /\ wpos' = wpos + 1
    /\ UNCHANGED <<lines, in_section, wpc>>
    /\ NoFig

\* after the loop: handle any remaining content that wasn't wrapped
WrapFinish ==
    /\ wpc = "loop"
    /\ wpos > Len(lines)
    /\ \E u \in Uuid :
          result_lines' =
              IF current_section # <<>> /\ ~in_section THEN Flushed(u)
              ELSE result_lines
    /\ wpc' = "done"
    /\ UNCHANGED <<lines, wpos, current_section, in_section>>
    /\ NoFig

WrapInit(inputs) ==
    /\ lines \in inputs
    /\ wpos = 1
    /\ result_lines = <<>>
    /\ current_section = <<>>
    /\ in_section = FALSE
    /\ wpc = "start"

WrapNext ==
    \/ WrapEmptyBody
    \/ WrapStart
    \/ BlankLine
    \/ SecOpenLine
    \/ SecCloseLine
    \/ ContentLine
    \/ WrapFinish

Init == WrapInit(SeqsUpTo(LineSet, MaxLines)) /\ FigIdle /\ MdIdle /\ MainIdle

Next == WrapNext

Spec == Init /\ [][Next]_vars

(***************************************************************************)
(* Bodies that are already fully wrapped in identified section containers  *)
(***************************************************************************)
\* the section element of a section-open line declares an identifier
SecElemHasId(l) == StartsWithSec(Strip(l)) /\ Strip(l)[1].id # NoId

IsSecOpenLine(l) == StartsWithSec(Strip(l))

IsSecCloseLine(l) == ~StartsWithSec(Strip(l)) /\ StartsWithSecClose(Strip(l))

IsBlankLine(l) == Strip(l) = <<>>

IsContentLine(l) == ~IsBlankLine(l) /\ ~IsSecOpenLine(l) /\ ~IsSecCloseLine(l)

\* every non-blank line of s lies inside a well-formed identified section,
\* d being the number of sections open before s
RECURSIVE WrappedFrom(_, _)
WrappedFrom(s, d) ==
    IF s = <<>> THEN d = 0
    ELSE IF IsBlankLine(Head(s)) THEN WrappedFrom(Tail(s), d)
    ELSE IF IsSecOpenLine(Head(s))
         THEN SecElemHasId(Head(s)) /\ WrappedFrom(Tail(s), d + 1)
    ELSE IF IsSecCloseLine(Head(s)) THEN d > 0 /\ WrappedFrom(Tail(s), d - 1)
    ELSE d > 0 /\ WrappedFrom(Tail(s), d)

FullyWrapped(s) == WrappedFrom(s, 0)

InitRoundTrip ==
    /\ WrapInit({s \in SeqsUpTo(WrappedLineSet, MaxWrapped) : FullyWrapped(s)})
    /\ FigIdle
    /\ MdIdle
    /\ MainIdle

SpecRoundTrip == InitRoundTrip /\ [][Next]_vars

(***************************************************************************)
(* Reading the output body                                                 *)
(***************************************************************************)
NonBlank(s) == SelectSeq(s, LAMBDA l : ~IsBlankLine(l))

SecLines(s) == SelectSeq(s, LAMBDA l : IsSecOpenLine(l) \/ IsSecCloseLine(l))

IsSynth(o) == o = SynthClose \/ \E u \in Uuid : o = SynthOpen(u)

\* output line o is input line l, possibly with an identifier injected
Carries(o, l) ==
    \/ o = l
    \/ IsSecOpenLine(l) /\ \E u \in Uuid : o = InjectId(Strip(l), HeadingId(u))

\* out is inp, in order, interleaved with synthesized section lines only
RECURSIVE Weave(_, _)
Weave(out, inp) ==
    IF out = <<>> THEN inp = <<>>
    ELSE \/ inp # <<>> /\ Carries(Head(out), Head(inp))
            /\ Weave(Tail(out), Tail(inp))
         \/ IsSynth(Head(out)) /\ Weave(Tail(out), inp)

\* number of tokens of kind t and tag "sec" in a line
RECURSIVE SecCount(_, _)
SecCount(l, t) ==
    IF l = <<>> THEN 0
    ELSE (IF Head(l).t = t /\ Head(l).tag = "sec" THEN 1 ELSE 0)
         + SecCount(Tail(l), t)

\* number of sections open after the lines of s (a close with no section
\* open closes nothing)
RECURSIVE DepthAfter(_)
DepthAfter(s) ==
    IF s = <<>> THEN 0
    ELSE LET l == s[Len(s)]
             d == DepthAfter(SubSeq(s, 1, Len(s) - 1))
                  + SecCount(l, "open") - SecCount(l, "close")
         IN  IF d < 0 THEN 0 ELSE d

\* line k of out lies inside a section that is open at that line
Enclosed(out, k) == DepthAfter(SubSeq(out, 1, k - 1)) > 0

(***************************************************************************)
(* Section wrapper: claims                                                 *)
(***************************************************************************)
\* C1: the wrapper discards no content: the non-blank input lines appear in
\* the output exactly once each and in their original order, and every other
\* non-blank output line is a synthesized section open or close line.
C1_NoContentDiscarded ==
    wpc = "done" => Weave(NonBlank(result_lines), NonBlank(lines))

C2Body == <<P1, SecOneLine, P2>>

\* C2: for the body orphan1 / <sec><title>X</title></sec> / orphan2 the output
\* is three sibling sections: orphan1 in a synthesized section, the middle
\* section with an injected identifier, orphan2 in a synthesized section.
C2_ThreeSiblingSections ==
    (wpc = "done" /\ lines = C2Body) =>
        \E u1, u2, u3 \in Uuid :
            result_lines =
                <<SynthOpen(u1), P1, SynthClose,
                  InjectId(SecOneLine, HeadingId(u2)),
                  SynthOpen(u3), P2, SynthClose>>

\* C3: round trip: for a body that is already fully wrapped in identified
\* sections the output has exactly the section open and close lines of the
\* input (none synthesized, none modified).
C3_RoundTripNoWrapping ==
    wpc = "done" => SecLines(result_lines) = SecLines(lines)

\* C4: in the output every content line lies between a section-open line
\* and its matching section-close line.
C4_AllContentEnclosed ==
    wpc = "done" /\ ~BodyIsBlank(lines) =>
        \A k \in DOMAIN result_lines :
            IsContentLine(result_lines[k]) => Enclosed(result_lines, k)

\* C5: every emitted section-open line declares an identifier on the section
\* element: a line whose section element has one is emitted unchanged, a line
\* whose section element has none is emitted with a generated one injected.
C5_OpenLinesIdentified ==
    [][(wpc = "loop" /\ wpos <= Len(lines) /\ IsSecOpenLine(line)) =>
          LET o == result_lines'[Len(result_lines')]
          IN  /\ SecElemHasId(o)
              /\ SecElemHasId(line) => o = line
              /\ ~SecElemHasId(line) =>
                     \E u \in Uuid : o = InjectId(Strip(line), HeadingId(u))]_vars

\* the line loop is about to handle a blank line
AtBlankLine == wpc = "loop" /\ wpos <= Len(lines) /\ IsBlankLine(line)

\* the line loop is about to handle a section-close line
AtSecCloseLine == wpc = "loop" /\ wpos <= Len(lines) /\ IsSecCloseLine(line)

\* C14 (as stated): a blank line is appended to whichever buffer is active:
\* outside a section it is appended to the orphan buffer, also when that
\* buffer is still empty, and inside a section it is emitted to the output
\* verbatim; it never causes a flush and never changes the inside/outside
\* state.
C14_BlankLineAppended ==
    [][AtBlankLine =>
          /\ in_section' = in_section
          /\ IF in_section
             THEN /\ result_lines' = Append(result_lines, line)
                  /\ current_section' = current_section
             ELSE /\ current_section' = Append(current_section, line)
                  /\ result_lines' = result_lines]_vars

\* C14 (amended): a blank line is appended to the orphan buffer exactly when
\* that buffer already holds a line, which is only ever the case outside a
\* section; otherwise (inside a section, or outside with an empty orphan
\* buffer) the blank line is dropped.  It never emits anything to the output,
\* never causes a flush and never changes the inside/outside state.
C14_BlankLineFollowsOrphans ==
    [][AtBlankLine =>
          /\ in_section' = in_section
          /\ result_lines' = result_lines
          /\ current_section # <<>> =>
                 ~in_section /\ current_section' = Append(current_section, line)
          /\ current_section = <<>> => current_section' = <<>>]_vars

\* a blank line met inside a section has been dropped
C14_Witness ==
    /\ wpc = "loop" /\ wpos = 3
    /\ SubSeq(lines, 1, 2) = <<SecA, Blank>>
    /\ in_section /\ result_lines = <<SecA>> /\ current_section = <<>>

\* C18: in every state of the line loop being inside a section implies that
\* the orphan buffer is empty, and the clearing of the orphan buffer done on
\* a section-close line never removes a buffered line, whatever state the
\* close line is met in.
C18_CloseClearsEmptyBuffer ==
    [][/\ in_section' => current_section' = <<>>
       /\ AtSecCloseLine => current_section = <<>>]_vars

(***************************************************************************)
(* parse_figures_for_jats                                                  *)
(***************************************************************************)
MaxParas == 3

\* uuid.uuid4().hex[:24]
HexLen == 24

HexTokens == {[k \in 1..HexLen |-> "a"], [k \in 1..HexLen |-> "0"]}

\* a tag carrying mime-subtype and xlink:href attributes
Graphic(t, tag, id, href, mime) ==
    [t |-> t, tag |-> tag, id |-> id, href |-> href, mime |-> mime]

EndOfText == Tok("eof", "", NoId)

At(doc, k) == IF k \in DOMAIN doc THEN doc[k] ELSE EndOfText

Min(S) == CHOOSE x \in S : \A y \in S : x <= y

\* <tag[^>]*>
MatchesTag(tok, tag) == tok.t \in {"open", "selfclose"} /\ tok.tag = tag

\* </tag>
MatchesClose(tok, tag) == tok.t = "close" /\ tok.tag = tag

FigureLabels == {"Figure 1", "Figure 2"}

\* Figure\s+\d+ filling the whole bold run
IsLabelText(tok) == tok.t = "text" /\ tok.tag \in FigureLabels

\* \s* : the first position from k on that holds no whitespace
RECURSIVE SkipWs(_, _)
SkipWs(doc, k) == IF IsWs(At(doc, k)) THEN SkipWs(doc, k + 1) ELSE k

\* [^<]* : the first position from k on that holds a tag (or the end)
RECURSIVE SkipChars(_, _)
SkipChars(doc, k) ==
    IF At(doc, k).t \in {"ws", "text"} THEN SkipChars(doc, k + 1) ELSE k

\* group 1, (<p[^>]*>\s*<bold[^>]*>Figure\s+\d+</bold>\s*</p>), matched at i:
\* the position of its </p>, or 0
LabelParaEnd(doc, i) ==
    LET k == SkipWs(doc, i + 1)
        c == SkipWs(doc, k + 3)
    IN  IF /\ MatchesTag(At(doc, i), "p")
           /\ MatchesTag(At(doc, k), "bold")
           /\ IsLabelText(At(doc, k + 1))
           /\ MatchesClose(At(doc, k + 2), "bold")
           /\ MatchesClose(At(doc, c), "p")
        THEN c ELSE 0

\* .*?</inline-graphic>([^<]*)</p> matched lazily from position g on: the
\* position of the </inline-graphic> the match settles on, or 0
GraphicCloseAt(doc, g) ==
    LET ends == {e \in g..Len(doc) :
                    /\ MatchesClose(doc[e], "inline-graphic")
                    /\ MatchesClose(At(doc, SkipChars(doc, e + 1)), "p")}
    IN  IF ends = {} THEN 0 ELSE Min(ends)

NoMatch == [ok |-> FALSE]

\* figure_pattern matched at position i of doc
FigureMatch(doc, i) ==
    LET c == LabelParaEnd(doc, i)
        p == SkipWs(doc, c + 1)
        g == SkipWs(doc, p + 1)
        e == GraphicCloseAt(doc, g + 1)
        last == SkipChars(doc, e + 1)
    IN  IF c = 0 THEN NoMatch
        ELSE IF ~MatchesTag(At(doc, p), "p") THEN NoMatch
        ELSE IF ~MatchesTag(At(doc, g), "inline-graphic") THEN NoMatch
        ELSE IF e = 0 THEN NoMatch
        ELSE [ok |-> TRUE,
              group1 |-> SubSeq(doc, i, c),
              group2 |-> SubSeq(doc, p, last),
              group3 |-> SubSeq(doc, e + 1, last - 1),
              end |-> last]

\* re.search(r'<bold[^>]*>(Figure\s+\d+)</bold>', label_para)
LabelOf(label_para) ==
    LET ks == {k \in DOMAIN label_para :
                  /\ MatchesTag(label_para[k], "bold")
                  /\ IsLabelText(At(label_para, k + 1))
                  /\ MatchesClose(At(label_para, k + 2), "bold")}
    IN  IF ks = {} THEN "Figure" ELSE label_para[Min(ks) + 1].tag

\* re.search(r'xlink:href="([^"]+)"', image_para)
HrefOf(image_para) ==
    LET ks == {k \in DOMAIN image_para : image_para[k].href # ""}
    IN  IF ks = {} THEN "image.png" ELSE image_para[Min(ks)].href

\* re.search(r'mime-subtype="([^"]+)"', image_para)
MimeSubtypeOf(image_para) ==
    LET ks == {k \in DOMAIN image_para : image_para[k].mime # ""}
    IN  IF ks = {} THEN "png" ELSE image_para[Min(ks)].mime

\* match.group(3).strip()
CaptionText(group3) == Strip(group3)

FigId(u) == <<"f", "i", "g", "-">> \o u

ObjectId(u) == <<"o", "b", "j", "e", "c", "t", "-", "i", "d", "-">> \o u

CaptionId(u) == <<"c", "a", "p", "t", "i", "o", "n", "-">> \o u

TitleId(u) == <<"t", "i", "t", "l", "e", "-">> \o u

PId(u) == <<"p", "-">> \o u

\* the graphic identifier built with the caption's prefix
GraphicIdCaptionPrefix(u) == <<"c", "a", "p", "t", "i", "o", "n", "-">> \o u

GraphicId(u) == <<"g", "r", "a", "p", "h", "i", "c", "-">> \o u

\* a newline and the indentation of the next line
Indent == <<NL, WS>>

\* the jats_figure f-string; u holds the six uuid tokens in call order
JatsFigure(m, u) ==
    LET fig_id == FigId(u[1])
    IN  <<Open("fig", fig_id)>> \o Indent
        \o <<Open("object-id", ObjectId(u[2])), Tok("text", "", fig_id),
             Close("object-id")>> \o Indent
        \o <<Open("label", NoId), Text(LabelOf(m.group1)), Close("label")>>
        \o Indent
        \o <<Open("caption", CaptionId(u[3]))>> \o Indent
        \o <<Tok("selfclose", "title", TitleId(u[4]))>> \o Indent
        \o <<Open("p", PId(u[5]))>> \o CaptionText(m.group3) \o <<Close("p")>>
        \o Indent
        \o <<Close("caption")>> \o Indent
        \o <<Graphic("selfclose", "graphic", GraphicId(u[6]),
                     HrefOf(m.group2), MimeSubtypeOf(m.group2))>> \o Indent
        \o <<Close("fig")>>

\* re.sub calls replace_figure on the match found at the scan position
FigReplace ==
    /\ fpc = "scan"
    /\ fpos <= Len(xml)
    /\ FigureMatch(xml, fpos).ok
    /\ \E u \in [1..6 -> HexTokens] :
          fout' = fout \o JatsFigure(FigureMatch(xml, fpos), u)
    /\ fpos' = FigureMatch(xml, fpos).end + 1
    /\ UNCHANGED <<xml, fpc>>
    /\ NoWrap

\* re.sub copies what no match covers
FigCopy ==
    /\ fpc = "scan"
    /\ fpos <= Len(xml)
    /\ ~FigureMatch(xml, fpos).ok
    /\ fout' = Append(fout, xml[fpos])
    /\ fpos' = fpos + 1
    /\ UNCHANGED <<xml, fpc>>
    /\ NoWrap

\* return content
FigDone ==
    /\ fpc = "scan"
    /\ fpos > Len(xml)
    /\ fpc' = "done"
    /\ UNCHANGED <<xml, fpos, fout>>
    /\ NoWrap

(***************************************************************************)
(* Input documents of the figure pass: paragraphs one after another        *)
(***************************************************************************)
\* <p><bold>Figure n</bold></p>, ws being the whitespace around the bold run
LabelPara(n, ws) ==
    <<Open("p", NoId)>> \o ws \o <<Open("bold", NoId), Text(n), Close("bold")>>
    \o ws \o <<Close("p")>>

\* <p><inline-graphic mime-subtype=M xlink:href=H></inline-graphic>C</p>
ImagePara(h, m, cap) ==
    <<Open("p", NoId), Graphic("open", "inline-graphic", NoId, h, m),
      Close("inline-graphic")>> \o cap \o <<Close("p")>>

Hrefs == {"img.png", "b.jpg"}

Mimes == {"png", "jpeg"}

Captions ==
    {<<>>, <<Text("Sample caption")>>, <<WS, Text("Sample caption"), WS>>}

Gaps == {<<>>, <<WS>>}

\* an image paragraph whose caption holds a nested element
NestedCaptionPara ==
    <<Open("p", NoId), Graphic("open", "inline-graphic", NoId, "n.png", "png"),
      Close("inline-graphic"), Text("see"), Open("italic", NoId), Text("x"),
      Close("italic"), Close("p")>>

\* a paragraph of text that ends with an inline image and plain text
TrailingImagePara ==
    <<Open("p", NoId), Text("intro"),
      Graphic("open", "inline-graphic", NoId, "t.gif", "gif"),
      Close("inline-graphic"), Text("tail"), Close("p")>>

PlainPara == <<Open("p", NoId), Text("plain"), Close("p")>>

\* paragraphs as the engine writes them, most of them ending their line
ParaSet ==
    {LabelPara("Figure 1", <<>>) \o <<WS>>,
     LabelPara("Figure 2", <<WS>>),
     ImagePara("img.png", "png", <<Text("Sample caption")>>) \o <<WS>>,
     ImagePara("b.jpg", "jpeg", <<WS, Text("Sample caption"), WS>>),
     NestedCaptionPara \o <<WS>>, TrailingImagePara \o <<WS>>,
     PlainPara \o <<WS>>}

\* the paragraphs of ps one after another
RECURSIVE Join(_)
Join(ps) == IF ps = <<>> THEN <<>> ELSE Head(ps) \o Join(Tail(ps))

FigInit ==
    /\ xml \in {Join(ps) : ps \in SeqsUpTo(ParaSet, MaxParas)}
    /\ fpos = 1
    /\ fout = <<>>
    /\ fpc = "scan"

InitFigures == FigInit /\ WrapIdle /\ MdIdle /\ MainIdle

NextFigures ==
    \/ FigReplace
    \/ FigCopy
    \/ FigDone

SpecFigures == InitFigures /\ [][NextFigures]_vars

(***************************************************************************)
(* Figure pass: claims                                                     *)
(***************************************************************************)
\* doc holds pattern from position i on
HoldsAt(doc, i, pattern) ==
    /\ i + Len(pattern) - 1 <= Len(doc)
    /\ SubSeq(doc, i, i + Len(pattern) - 1) = pattern

\* the tokens of s with tag name tag that open an element
Elements(s, tag) == SelectSeq(s, LAMBDA tok : MatchesTag(tok, tag))

\* the text between the first <tag ...> of s and the next </tag>
TextOf(s, tag) ==
    LET a == Min({k \in DOMAIN s : MatchesTag(s[k], tag)})
        b == Min({k \in DOMAIN s : k > a /\ MatchesClose(s[k], tag)})
    IN  SubSeq(s, a + 1, b - 1)

\* what one step of the figure pass appends to its output
Emitted == SubSeq(fout', Len(fout) + 1, Len(fout'))

IdTags == <<"fig", "object-id", "caption", "title", "p", "graphic">>

\* the emitted tokens are one figure element with label n, graphic href h
\* and mime-subtype m, caption paragraph text c and six distinct identifiers
IsOneFigure(s, n, h, m, c) ==
    /\ Len(Elements(s, "fig")) = 1
    /\ \A k \in 1..6 : Len(Elements(s, IdTags[k])) = 1
    /\ TextOf(s, "label") = <<Text(n)>>
    /\ Elements(s, "graphic")[1].href = h
    /\ Elements(s, "graphic")[1].mime = m
    /\ TextOf(s, "p") = c
    /\ \A j, k \in 1..6 :
          j # k => Elements(s, IdTags[j])[1].id # Elements(s, IdTags[k])[1].id

\* C6: a label paragraph "Figure n" followed by an image paragraph with href
\* H, mime-subtype M and trailing caption C is replaced by exactly one figure
\* element with label n, graphic H/M, caption paragraph text C trimmed, and
\* six pairwise distinct identifiers, whatever tokens uuid returns.
C6_FigureSynthesized ==
    [][MatchesTag(At(xml, fpos), "p") =>
       \A n \in FigureLabels, ws \in Gaps, gap \in Gaps, h \in Hrefs,
          m \in Mimes, cap \in Captions :
          LET pattern == LabelPara(n, ws) \o gap \o ImagePara(h, m, cap)
          IN  (fpc = "scan" /\ HoldsAt(xml, fpos, pattern)) =>
                  /\ fpos' = fpos + Len(pattern)
                  /\ IsOneFigure(Emitted, n, h, m, Strip(cap))]_vars

\* a figure pattern has been replaced, the uuid tokens being equal
C6_Witness ==
    /\ fpc = "done"
    /\ xml = LabelPara("Figure 1", <<>>) \o <<WS>>
             \o ImagePara("b.jpg", "jpeg", <<WS, Text("Sample caption"), WS>>)
    /\ TextOf(fout, "p") = <<Text("Sample caption")>>
    /\ Len(Elements(fout, "fig")) = 1
    /\ Elements(fout, "caption")[1].id = CaptionId([k \in 1..HexLen |-> "a"])
    /\ Elements(fout, "graphic")[1].id = GraphicId([k \in 1..HexLen |-> "a"])

\* what one step of the figure pass consumes of its input
Consumed == SubSeq(xml, fpos, fpos' - 1)

\* the number of paragraphs that end in s
Paragraphs(s) == Len(SelectSeq(s, LAMBDA tok : MatchesClose(tok, "p")))

\* C17: the figure pass changes nothing outside a figure pattern: every step
\* either copies its input unchanged or substitutes exactly one label
\* paragraph together with the one image paragraph that immediately follows
\* it; a label paragraph whose following image paragraph does not fit the
\* pattern (its caption holds a nested element) is left untouched together
\* with all later paragraphs, also when a later paragraph ends with an inline
\* image followed by plain text.
C17_NothingOutsideFigurePattern ==
    [][(fpc = "scan" /\ fpos <= Len(xml)) =>
          \/ Emitted = Consumed
          \/ /\ LabelParaEnd(xml, fpos) # 0
             /\ Paragraphs(Consumed) = 2
             /\ Len(Elements(Emitted, "fig")) = 1]_vars

(***************************************************************************)
(* Markdown text: sequences of characters, and the regular expressions of  *)
(* the DOCX direction                                                      *)
(***************************************************************************)
MaxLen == 6

MaxRuns == 4

MaxBold == 4

MaxSegs == 3

\* \s
IsSpace(c) == c \in {" ", "\n"}

\* the character at position k, "" beyond either end
CharAt(s, k) == IF k \in DOMAIN s THEN s[k] ELSE ""

\* \s* : the first position from k on that holds no whitespace
RECURSIVE SkipSpace(_, _)
SkipSpace(s, k) == IF IsSpace(CharAt(s, k)) THEN SkipSpace(s, k + 1) ELSE k

\* [^c]* : the first position from k on that holds c, Len(s) + 1 if none
RECURSIVE SkipNot(_, _, _)
SkipNot(s, k, c) ==
    IF k > Len(s) \/ s[k] = c THEN k ELSE SkipNot(s, k + 1, c)

\* str.strip()
RECURSIVE LTrim(_)
LTrim(s) == IF s # <<>> /\ IsSpace(Head(s)) THEN LTrim(Tail(s)) ELSE s

RECURSIVE RTrim(_)
RTrim(s) ==
    IF s # <<>> /\ IsSpace(s[Len(s)]) THEN RTrim(SubSeq(s, 1, Len(s) - 1)) ELSE s

Trim(s) == RTrim(LTrim(s))

\* the literal lit stands at position k
HasLit(s, k, lit) ==
    /\ k >= 1
    /\ k + Len(lit) - 1 <= Len(s)
    /\ SubSeq(s, k, k + Len(lit) - 1) = lit

\* n times the character d
Rep(d, n) == [k \in 1..n |-> d]

\* one emphasis run at position i: a delimiters d, a text free of d, b
\* delimiters d; alone adds the look-arounds (?<!d) and (?!d)
RunAt(s, i, d, a, b, alone) ==
    LET t == i + a
        j == SkipNot(s, t, d)
    IN  IF /\ HasLit(s, i, Rep(d, a))
           /\ j > t
           /\ HasLit(s, j, Rep(d, b))
           /\ alone => (CharAt(s, i - 1) # d /\ CharAt(s, j + b) # d)
        THEN [ok |-> TRUE, text |-> SubSeq(s, t, j - 1), end |-> j + b - 1]
        ELSE [ok |-> FALSE]

\* the patterns of two adjacent runs: delimiter, delimiter counts of the two
\* runs, least whitespace between them (\s* or \s+), look-arounds
Pattern(d, a1, b1, a2, b2, minws, alone) ==
    [d |-> d, open1 |-> a1, close1 |-> b1, open2 |-> a2, close2 |-> b2,
     minws |-> minws, alone |-> alone]

pattern1 == Pattern("*", 3, 3, 3, 3, 0, FALSE)

pattern2 == Pattern("*", 3, 3, 2, 2, 0, FALSE)

pattern3 == Pattern("*", 2, 2, 3, 3, 0, FALSE)

pattern4 == Pattern("*", 2, 2, 2, 2, 0, FALSE)

pattern5 == Pattern("*", 3, 3, 3, 1, 0, FALSE)

underscore_pattern == Pattern("_", 1, 1, 1, 1, 1, FALSE)

asterisk_pattern == Pattern("*", 1, 1, 1, 1, 1, TRUE)

\* the pattern pat matched at position i
PairAt(s, i, pat) ==
    LET r1 == RunAt(s, i, pat.d, pat.open1, pat.close1, pat.alone)
        w == r1.end + 1
        k == SkipSpace(s, w)
        r2 == RunAt(s, k, pat.d, pat.open2, pat.close2, pat.alone)
    IN  IF ~r1.ok THEN [ok |-> FALSE]
        ELSE IF k - w < pat.minws THEN [ok |-> FALSE]
        ELSE IF ~r2.ok THEN [ok |-> FALSE]
        ELSE [ok |-> TRUE, group1 |-> r1.text, group2 |-> r2.text,
              end |-> r2.end]

\* both runs written back, only the whitespace between them normalized
MergeKeepRuns(mark, m) ==
    mark \o Trim(m.group1) \o mark \o <<" ">> \o mark \o Trim(m.group2) \o mark

\* the merged run written without the joining space
MergeNoSpace(mark, m) == mark \o Trim(m.group1) \o Trim(m.group2) \o mark

\* the merge callbacks (merge_bold_italic, merge_bold_bold,
\* merge_underscore_italics, ...): f'{mark}{first_text} {second_text}{mark}'
Merge(mark, m) ==
    mark \o Trim(m.group1) \o <<" ">> \o Trim(m.group2) \o mark

\* re.sub(pattern, merge, content) from position i on, mark being the
\* delimiters the merge callback writes
RECURSIVE SubFrom(_, _, _, _)
SubFrom(s, i, pat, mark) ==
    IF i > Len(s) THEN <<>>
    ELSE LET m == PairAt(s, i, pat)
         IN  IF m.ok THEN Merge(mark, m) \o SubFrom(s, m.end + 1, pat, mark)
             ELSE <<s[i]>> \o SubFrom(s, i + 1, pat, mark)

Sub(pat, mark, s) == SubFrom(s, 1, pat, mark)

\* re.sub(r'(?<!\*)\*([^*]+?)\*(?!\*)', r'_\1_', content)
RECURSIVE NormalizeFrom(_, _)
NormalizeFrom(s, i) ==
    IF i > Len(s) THEN <<>>
    ELSE LET m == RunAt(s, i, "*", 1, 1, TRUE)
         IN  IF m.ok
             THEN <<"_">> \o m.text \o <<"_">> \o NormalizeFrom(s, m.end + 1)
             ELSE <<s[i]>> \o NormalizeFrom(s, i + 1)

\* the normalization without its look-arounds: \*([^*]+?)\*
RECURSIVE NormalizeAnyFrom(_, _)
NormalizeAnyFrom(s, i) ==
    IF i > Len(s) THEN <<>>
    ELSE LET m == RunAt(s, i, "*", 1, 1, FALSE)
         IN  IF m.ok
             THEN <<"_">> \o m.text \o <<"_">> \o NormalizeAnyFrom(s, m.end + 1)
             ELSE <<s[i]>> \o NormalizeAnyFrom(s, i + 1)

NormalizeNoLookaround(s) == NormalizeAnyFrom(s, 1)

NormalizeItalics(s) == NormalizeFrom(s, 1)

Max(S) == CHOOSE x \in S : \A y \in S : x >= y

\* key\s*=\s*"[^"]*"[^}]*\} matched at position w: the position of the
\* closing brace, or 0
KeyAt(s, w, key) ==
    LET q == SkipSpace(s, w + Len(key))
        v == SkipSpace(s, q + 1)
        r == SkipNot(s, v + 1, "\"")
        c == SkipNot(s, r + 1, "}")
    IN  IF /\ HasLit(s, w, key)
           /\ CharAt(s, q) = "="
           /\ CharAt(s, v) = "\""
           /\ r <= Len(s)
           /\ c <= Len(s)
        THEN c ELSE 0

\* \s*\{[^}]*key\s*=\s*"[^"]*"[^}]*\}\s* matched at position i: the greedy
\* [^}]* settles on the last position of the key that lets the rest match
DimensionAt(s, i, key) ==
    LET b == SkipSpace(s, i)
        stop == SkipNot(s, b + 1, "}")
        ws == {w \in (b + 1)..(stop - 1) : KeyAt(s, w, key) # 0}
    IN  IF CharAt(s, b) # "{" \/ ws = {} THEN [ok |-> FALSE]
        ELSE [ok |-> TRUE, end |-> SkipSpace(s, KeyAt(s, Max(ws), key) + 1) - 1]

\* re.sub(dimension_pattern, '', content)
RECURSIVE StripFrom(_, _, _)
StripFrom(s, i, key) ==
    IF i > Len(s) THEN <<>>
    ELSE LET m == DimensionAt(s, i, key)
         IN  IF m.ok THEN StripFrom(s, m.end + 1, key)
             ELSE <<s[i]>> \o StripFrom(s, i + 1, key)

width == <<"w", "i", "d", "t", "h">>

height == <<"h", "e", "i", "g", "h", "t">>

\* both deletions made with the width pattern
StripWidthOnly(key, s) == StripFrom(s, 1, width)

StripDimension(key, s) == StripFrom(s, 1, key)

(***************************************************************************)
(* The passes of the DOCX direction.  call is the function under way:     *)
(* convert_docx_to_markdown runs all passes on the engine's output, the    *)
(* other three run alone on their argument.                                *)
(***************************************************************************)
Convert == "convert_docx_to_markdown"

FixBold == "fix_split_bold_formatting"

Consolidate == "consolidate_adjacent_italics"

RemoveDims == "remove_image_dimensions"

\* previous_content = None
None == <<"None">>

\* where a pass hands over: to the next pass of the pipeline, or back to the
\* caller of the single pass
Return(next) == IF call = Convert THEN next ELSE "done"

\* content = re.sub(r'(?<!\*)\*([^*]+?)\*(?!\*)', r'_\1_', content)
Normalize ==
    /\ mpc = "normalize"
    /\ content' = NormalizeItalics(content)
    /\ mpc' = "pattern1"
    /\ UNCHANGED <<call, input, previous_content>>
    /\ NoXml

\* content = re.sub(pattern1, merge_bold_italic, content)
MergeBoldItalic ==
    /\ mpc = "pattern1"
    /\ content' = Sub(pattern1, Rep("*", 3), content)
    /\ mpc' = "pattern2"
    /\ UNCHANGED <<call, input, previous_content>>
    /\ NoXml

\* content = re.sub(pattern2, merge_bold_italic_bold, content)
MergeBoldItalicBold ==
    /\ mpc = "pattern2"
    /\ content' = Sub(pattern2, Rep("*", 3), content)
    /\ mpc' = "pattern3"
    /\ UNCHANGED <<call, input, previous_content>>
    /\ NoXml

\* content = re.sub(pattern3, merge_bold_bold_italic, content)
MergeBoldBoldItalic ==
    /\ mpc = "pattern3"
    /\ content' = Sub(pattern3, Rep("*", 3), content)
    /\ mpc' = "pattern4"
    /\ UNCHANGED <<call, input, previous_content>>
    /\ NoXml

\* the fourth rule applied again to its own output
MergeBoldBoldRescan ==
    /\ mpc = "pattern4"
    /\ content' = Sub(pattern4, Rep("*", 2), Sub(pattern4, Rep("*", 2), content))
    /\ mpc' = "pattern5"
    /\ UNCHANGED <<call, input, previous_content>>
    /\ NoXml

\* content = re.sub(pattern4, merge_bold_bold, content)
MergeBoldBold ==
    /\ mpc = "pattern4"
    /\ content' = Sub(pattern4, Rep("*", 2), content)
    /\ mpc' = "pattern5"
    /\ UNCHANGED <<call, input, previous_content>>
    /\ NoXml

\* content = re.sub(pattern5, merge_bold_italic_partial, content); return
MergeBoldItalicPartial ==
    /\ mpc = "pattern5"
    /\ content' = Sub(pattern5, Rep("*", 3), content)
    /\ mpc' = Return("underscore")
    /\ previous_content' = IF call = Convert THEN None ELSE previous_content
    /\ UNCHANGED <<call, input>>
    /\ NoXml

\* while previous_content != content: one more underscore substitution
UnderscoreIterate ==
    /\ mpc = "underscore"
    /\ previous_content # content
    /\ previous_content' = content
    /\ content' = Sub(underscore_pattern, <<"_">>, content)
    /\ UNCHANGED <<call, input, mpc>>
    /\ NoXml

\* the underscore loop left after its first pass, changed or not
UnderscoreExitAfterOnePass ==
    /\ mpc = "underscore"
    /\ previous_content # None
    /\ previous_content' = None
    /\ mpc' = "asterisk"
    /\ UNCHANGED <<call, input, content>>
    /\ NoXml

\* the underscore loop ends; previous_content = None
UnderscoreExit ==
    /\ mpc = "underscore"
    /\ previous_content = content
    /\ previous_content' = None
    /\ mpc' = "asterisk"
    /\ UNCHANGED <<call, input, content>>
    /\ NoXml

\* while previous_content != content: one more asterisk substitution
AsteriskIterate ==
    /\ mpc = "asterisk"
    /\ previous_content # content
    /\ previous_content' = content
    /\ content' = Sub(asterisk_pattern, <<"*">>, content)
    /\ UNCHANGED <<call, input, mpc>>
    /\ NoXml

\* the asterisk loop ends; return content
AsteriskExit ==
    /\ mpc = "asterisk"
    /\ previous_content = content
    /\ mpc' = Return("width")
    /\ UNCHANGED <<call, input, content, previous_content>>
    /\ NoXml

\* content = re.sub(dimension_pattern, '', content)
StripWidth ==
    /\ mpc = "width"
    /\ content' = StripDimension(width, content)
    /\ mpc' = "height"
    /\ UNCHANGED <<call, input, previous_content>>
    /\ NoXml

\* content = re.sub(dimension_pattern2, '', content); return content
StripHeight ==
    /\ mpc = "height"
    /\ content' = StripDimension(height, content)
    /\ mpc' = "done"
    /\ UNCHANGED <<call, input, previous_content>>
    /\ NoXml

\* the first statement of each function
Entry(f) ==
    CASE f = Convert -> "normalize"
      [] f = FixBold -> "pattern1"
      [] f = Consolidate -> "underscore"
      [] f = RemoveDims -> "width"

(***************************************************************************)
(* Input buffers of the DOCX direction                                     *)
(***************************************************************************)
\* every text over a small alphabet
AnyText == SeqsUpTo({"_", "*", "a", " "}, MaxLen)

Texts == {<<"a">>, <<"b", " ", "c">>, <<"w", "o", "r", "d">>}

Spaces == {<<" ">>, <<" ", "\n">>}

\* mark t1 mark sep1 mark t2 mark ... : runs with the same delimiters
RECURSIVE Runs(_, _, _)
Runs(mark, ts, seps) ==
    IF Len(ts) = 1 THEN mark \o ts[1] \o mark
    ELSE mark \o ts[1] \o mark \o seps[1] \o Runs(mark, Tail(ts), Tail(seps))

RunsOf(mark, n) ==
    {Runs(mark, ts, seps) : ts \in [1..n -> Texts], seps \in [1..(n - 1) -> Spaces]}

ItalicInputs ==
    AnyText \cup UNION {RunsOf(<<"_">>, n) \cup RunsOf(<<"*">>, n) : n \in 1..MaxRuns}

BoldTexts == {<<"a">>, <<" ", "b", " ">>}

BoldMarks == {Rep("*", 2), Rep("*", 3)}

BoldGaps == {<<>>, <<" ">>}

\* runs with two or three asterisks each
RECURSIVE MixedRuns(_, _, _)
MixedRuns(marks, ts, seps) ==
    IF Len(ts) = 1 THEN marks[1] \o ts[1] \o marks[1]
    ELSE marks[1] \o ts[1] \o marks[1] \o seps[1]
         \o MixedRuns(Tail(marks), Tail(ts), Tail(seps))

BoldInputs ==
    UNION {{MixedRuns(marks, ts, seps) :
               marks \in [1..n -> BoldMarks], ts \in [1..n -> BoldTexts],
               seps \in [1..(n - 1) -> BoldGaps]} : n \in 1..MaxBold}

ImageRef == <<"!", "[", "x", "]", "(", "i", ".", "p", "n", "g", ")">>

WidthAttr == width \o <<"=", "\"", "3", "i", "n", "\"">>

HeightAttr == height \o <<" ", "=", " ", "\"", "2", "i", "n", "\"">>

Block(attrs) == <<"{">> \o attrs \o <<"}">>

Segments ==
    {ImageRef, <<" ">>, <<"x">>,
     Block(WidthAttr), Block(HeightAttr),
     Block(WidthAttr \o <<" ">> \o HeightAttr),
     Block(HeightAttr \o <<" ">> \o WidthAttr),
     Block(<<".", "c">>)}

DimInputs == {Join(segs) : segs \in SeqsUpTo(Segments, MaxSegs)}

\* an image reference with the dimensions the engine appends
SizedImages ==
    {ImageRef \o Block(attrs) :
        attrs \in {WidthAttr, HeightAttr, WidthAttr \o <<" ">> \o HeightAttr}}

Inputs(f) ==
    CASE f = Convert -> BoldInputs \cup SizedImages
      [] f = FixBold -> BoldInputs
      [] f = Consolidate -> ItalicInputs
      [] f = RemoveDims -> DimInputs

MdInit ==
    /\ call \in {Convert, FixBold, Consolidate, RemoveDims}
    /\ input \in Inputs(call)
    /\ content = input
    /\ previous_content = None
    /\ mpc = Entry(call)

InitMarkdown == MdInit /\ WrapIdle /\ FigIdle /\ MainIdle

NextMarkdown ==
    \/ Normalize
    \/ MergeBoldItalic
    \/ MergeBoldItalicBold
    \/ MergeBoldBoldItalic
    \/ MergeBoldBold
    \/ MergeBoldItalicPartial
    \/ UnderscoreIterate
    \/ UnderscoreExit
    \/ AsteriskIterate
    \/ AsteriskExit
    \/ StripWidth
    \/ StripHeight

SpecMarkdown == InitMarkdown /\ [][NextMarkdown]_vars

(***************************************************************************)
(* main and the two convert functions                                      *)
(***************************************************************************)
MaxPieces == 2

MaxBodyLines == 3

ConvertXml == "convert_markdown_to_xml"

\* input_path.suffix.lower()
Extensions == {".docx", ".md", ".txt"}

\* body_pattern, (<body[^>]*>)(.*?)(</body>), searched in doc: the positions
\* of the first <body> that has a </body> behind it and of the first such
\* </body>
BodyMatch(doc) ==
    LET closes(k) == {e \in (k + 1)..Len(doc) : MatchesClose(doc[e], "body")}
        opens == {k \in DOMAIN doc :
                     MatchesTag(doc[k], "body") /\ closes(k) # {}}
    IN  IF opens = {} THEN [ok |-> FALSE]
        ELSE [ok |-> TRUE, open |-> Min(opens), close |-> Min(closes(Min(opens)))]

\* match.group(2)
BodyContent(doc) ==
    SubSeq(doc, BodyMatch(doc).open + 1, BodyMatch(doc).close - 1)

\* body_content.split('\n')
RECURSIVE SplitLines(_)
SplitLines(s) ==
    LET ks == {k \in DOMAIN s : s[k] = NL}
    IN  IF ks = {} THEN <<s>>
        ELSE <<SubSeq(s, 1, Min(ks) - 1)>>
             \o SplitLines(SubSeq(s, Min(ks) + 1, Len(s)))

\* '\n'.join(result_lines)
RECURSIVE JoinLines(_)
JoinLines(ls) ==
    IF ls = <<>> THEN <<>>
    ELSE IF Len(ls) = 1 THEN ls[1]
    ELSE ls[1] \o <<NL>> \o JoinLines(Tail(ls))

\* what re.sub(body_pattern, wrap_body_content, content) returns once
\* wrap_body_content has ended: f"{body_open}{body_content}{body_close}" for
\* a blank body, f"{body_open}\n{processed_content}\n{body_close}" otherwise
Rewrapped(doc) ==
    SubSeq(doc, 1, BodyMatch(doc).open)
    \o (IF BodyIsBlank(lines) THEN JoinLines(result_lines)
        ELSE <<NL>> \o JoinLines(result_lines) \o <<NL>>)
    \o SubSeq(doc, BodyMatch(doc).close, Len(doc))

\* the rest of main and of the convert functions
NoPass == UNCHANGED <<wrapVars, figVars, mdVars>>

\* if not check_pandoc_installed(): sys.exit(1)
PandocMissing ==
    /\ pc = "main"
    /\ ~pandoc_installed
    /\ pc' = "exit(1)"
    /\ UNCHANGED <<input_ext, pandoc_installed, input_exists, result,
                   output_exists, output_file, written, success>>
    /\ NoPass

\* if input_ext == '.docx': success = convert_docx_to_markdown(...)
CallConvertDocx ==
    /\ pc = "main"
    /\ pandoc_installed
    /\ input_ext = ".docx"
    /\ call' = Convert
    /\ pc' = "convert"
    /\ UNCHANGED <<input_ext, pandoc_installed, input_exists, result,
                   output_exists, output_file, written, success>>
    /\ UNCHANGED <<wrapVars, figVars, input, content, previous_content, mpc>>

\* elif input_ext == '.md': success = convert_markdown_to_xml(...)
CallConvertXml ==
    /\ pc = "main"
    /\ pandoc_installed
    /\ input_ext = ".md"
    /\ call' = ConvertXml
    /\ pc' = "convert"
    /\ UNCHANGED <<input_ext, pandoc_installed, input_exists, result,
                   output_exists, output_file, written, success>>
    /\ UNCHANGED <<wrapVars, figVars, input, content, previous_content, mpc>>

\* else: Unsupported input format; sys.exit(1)
UnsupportedFormat ==
    /\ pc = "main"
    /\ pandoc_installed
    /\ input_ext \notin {".docx", ".md"}
    /\ pc' = "exit(1)"
    /\ UNCHANGED <<input_ext, pandoc_installed, input_exists, result,
                   output_exists, output_file, written, success>>
    /\ NoPass

\* if not os.path.exists(input_file): return False
InputNotFound ==
    /\ pc = "convert"
    /\ ~input_exists
    /\ success' = "False"
    /\ pc' = "returned"
    /\ UNCHANGED <<input_ext, pandoc_installed, input_exists, result,
                   output_exists, output_file, written>>
    /\ NoPass

\* Markdown lines the engine writes for a DOCX input
MdPieces ==
    {<<"*", "a", "*", " ", "*", "a", "*", "\n">>,
     <<"_", "a", "_", " ", "_", "a", "_", "\n">>,
     Rep("*", 2) \o <<"a">> \o Rep("*", 2) \o <<" ">>
         \o Rep("*", 2) \o <<"a">> \o Rep("*", 2) \o <<"\n">>,
     <<"!", "[", "]", "(", "i", ")">>
         \o Block(width \o <<"=", "\"", "1", "\"">>) \o <<"\n">>,
     <<"x", "\n">>}

EngineMarkdown == {Join(ps) : ps \in SeqsUpTo(MdPieces, MaxPieces)}

\* body lines the engine writes for a Markdown input
XmlLineSet ==
    {Blank, SecA, SecClose, P1, LabelPara("Figure 1", <<>>),
     ImagePara("img.png", "png", <<Text("Sample caption")>>)}

\* a standalone JATS document around the body lines ls
Article(ls) ==
    <<Open("article", NoId), NL, Open("body", NoId), NL>>
    \o JoinLines(ls) \o <<NL, Close("body"), NL, Close("article"), NL>>

\* a document without body element
NoBodyArticle == <<Open("article", NoId), NL, Close("article"), NL>>

EngineXml ==
    {Article(ls) : ls \in SeqsUpTo(XmlLineSet, MaxBodyLines)} \cup {NoBodyArticle}

EngineOutput(f) == IF f = Convert THEN EngineMarkdown ELSE EngineXml

\* a failed engine call taken for a successful one
EngineFailsUnchecked ==
    /\ pc = "convert"
    /\ input_exists
    /\ result' = "CalledProcessError"
    /\ output_exists' = TRUE
    /\ output_file' \in EngineOutput(call)
    /\ pc' = "read"
    /\ UNCHANGED <<input_ext, pandoc_installed, input_exists, written, success>>
    /\ NoPass

\* subprocess.run(cmd, ..., check=True) raises CalledProcessError: the engine
\* ended with a non-zero status, having left an output file or not;
\* except subprocess.CalledProcessError: return False
EngineFails ==
    /\ pc = "convert"
    /\ input_exists
    /\ result' = "CalledProcessError"
    /\ output_exists' \in BOOLEAN
    /\ success' = "False"
    /\ pc' = "returned"
    /\ UNCHANGED <<input_ext, pandoc_installed, input_exists, output_file, written>>
    /\ NoPass

\* subprocess.run returns: the engine has written the output file
EngineSucceeds ==
    /\ pc = "convert"
    /\ input_exists
    /\ result' = "CompletedProcess"
    /\ output_exists' = TRUE
    /\ output_file' \in EngineOutput(call)
    /\ pc' = "read"
    /\ UNCHANGED <<input_ext, pandoc_installed, input_exists, written, success>>
    /\ NoPass

\* subprocess.run returns and there is no output file
EngineSucceedsNoFile ==
    /\ pc = "convert"
    /\ input_exists
    /\ result' = "CompletedProcess"
    /\ output_exists' = FALSE
    /\ pc' = "read"
    /\ UNCHANGED <<input_ext, pandoc_installed, input_exists, output_file,
                   written, success>>
    /\ NoPass

\* if os.path.exists(output_file) fails: return True
SkipPostProcessing ==
    /\ pc = "read"
    /\ ~output_exists
    /\ success' = "True"
    /\ pc' = "returned"
    /\ UNCHANGED <<input_ext, pandoc_installed, input_exists, result,
                   output_exists, output_file, written>>
    /\ NoPass

\* convert_docx_to_markdown: content = f.read(); the first pass is entered
ReadMarkdown ==
    /\ pc = "read"
    /\ output_exists
    /\ call = Convert
    /\ input' = output_file
    /\ content' = output_file
    /\ previous_content' = None
    /\ mpc' = Entry(Convert)
    /\ pc' = "passes"
    /\ UNCHANGED <<input_ext, pandoc_installed, input_exists, result,
                   output_exists, output_file, written, success>>
    /\ UNCHANGED <<wrapVars, figVars, call>>

\* convert_markdown_to_xml: content = f.read(); parse_figures_for_jats(content)
ReadXml ==
    /\ pc = "read"
    /\ output_exists
    /\ call = ConvertXml
    /\ xml' = output_file
    /\ fpos' = 1
    /\ fout' = <<>>
    /\ fpc' = "scan"
    /\ pc' = "passes"
    /\ UNCHANGED <<input_ext, pandoc_installed, input_exists, result,
                   output_exists, output_file, written, success>>
    /\ UNCHANGED <<wrapVars, mdVars>>

\* the section wrapper called on what the engine wrote
CallWrapOnEngineOutput ==
    /\ pc = "passes"
    /\ call = ConvertXml
    /\ fpc = "done"
    /\ wpc = "idle"
    /\ BodyMatch(fout).ok
    /\ lines' = SplitLines(BodyContent(xml))
    /\ wpos' = 1
    /\ wpc' = "start"
    /\ UNCHANGED <<result_lines, current_section, in_section>>
    /\ UNCHANGED <<figVars, mdVars, mainVars>>

\* content = wrap_body_content_in_sections(content): body_pattern matches and
\* wrap_body_content is entered
CallWrap ==
    /\ pc = "passes"
    /\ call = ConvertXml
    /\ fpc = "done"
    /\ wpc = "idle"
    /\ BodyMatch(fout).ok
    /\ lines' = SplitLines(BodyContent(fout))
    /\ wpos' = 1
    /\ wpc' = "start"
    /\ UNCHANGED <<result_lines, current_section, in_section>>
    /\ UNCHANGED <<figVars, mdVars, mainVars>>

\* body_pattern matches nowhere: the content is written as the figure pass
\* returned it; return True
WriteXmlNoBody ==
    /\ pc = "passes"
    /\ call = ConvertXml
    /\ fpc = "done"
    /\ ~BodyMatch(fout).ok
    /\ output_file' = fout
    /\ written' = TRUE
    /\ success' = "True"
    /\ pc' = "returned"
    /\ UNCHANGED <<input_ext, pandoc_installed, input_exists, result, output_exists>>
    /\ NoPass

\* convert_markdown_to_xml: f.write(content); return True
WriteXml ==
    /\ pc = "passes"
    /\ call = ConvertXml
    /\ wpc = "done"
    /\ output_file' = Rewrapped(fout)
    /\ written' = TRUE
    /\ success' = "True"
    /\ pc' = "returned"
    /\ UNCHANGED <<input_ext, pandoc_installed, input_exists, result, output_exists>>
    /\ NoPass

\* convert_docx_to_markdown: f.write(content); return True
WriteMarkdown ==
    /\ pc = "passes"
    /\ call = Convert
    /\ mpc = "done"
    /\ output_file' = content
    /\ written' = TRUE
    /\ success' = "True"
    /\ pc' = "returned"
    /\ UNCHANGED <<input_ext, pandoc_installed, input_exists, result, output_exists>>
    /\ NoPass

\* if not success: sys.exit(1)
MainExit ==
    /\ pc = "returned"
    /\ pc' = IF success = "True" THEN "exit(0)" ELSE "exit(1)"
    /\ UNCHANGED <<input_ext, pandoc_installed, input_exists, result,
                   output_exists, output_file, written, success>>
    /\ NoPass

InitMain ==
    /\ pc = "main"
    /\ input_ext \in Extensions
    /\ pandoc_installed \in BOOLEAN
    /\ input_exists \in BOOLEAN
    /\ result = "None"
    /\ output_exists = FALSE
    /\ output_file = <<>>
    /\ written = FALSE
    /\ success = "None"
    /\ WrapIdle
    /\ FigIdle
    /\ MdIdle

NextMain ==
    \/ PandocMissing
    \/ CallConvertDocx
    \/ CallConvertXml
    \/ UnsupportedFormat
    \/ InputNotFound
    \/ EngineFails
    \/ EngineSucceeds
    \/ EngineSucceedsNoFile
    \/ SkipPostProcessing
    \/ ReadMarkdown
    \/ ReadXml
    \/ NextMarkdown
    \/ NextFigures
    \/ CallWrap
    \/ WrapNext
    \/ WriteXmlNoBody
    \/ WriteXml
    \/ WriteMarkdown
    \/ MainExit

SpecMain == InitMain /\ [][NextMain]_vars

(***************************************************************************)
(* DOCX direction: claims                                                  *)
(***************************************************************************)
\* the underscore loop has just ended
UnderscoreLoopDone == mpc = "asterisk" /\ previous_content = None

\* the asterisk loop has ended
AsteriskLoopDone ==
    \/ call = Consolidate /\ mpc = "done"
    \/ call = Convert /\ mpc = "width"

\* C7: the buffer each fixed-point loop ends with is left unchanged by one
\* more application of that loop's substitution.
C7_LoopsReachFixedPoint ==
    /\ UnderscoreLoopDone => Sub(underscore_pattern, <<"_">>, content) = content
    /\ AsteriskLoopDone => Sub(asterisk_pattern, <<"*">>, content) = content

\* both loops have run, the asterisk loop merging three runs in two passes
C7_Witness ==
    /\ call = Consolidate
    /\ mpc = "done"
    /\ input = Runs(<<"*">>, <<<<"a">>, <<"a">>, <<"a">>>>, <<<<" ">>, <<" ">>>>)
    /\ content = <<"*", "a", " ", "a", " ", "a", "*">>

\* t1 t2 ... tn joined by single spaces
RECURSIVE Spaced(_)
Spaced(ts) ==
    IF Len(ts) = 1 THEN ts[1] ELSE ts[1] \o <<" ">> \o Spaced(Tail(ts))

\* the texts t1 ... tn of the runs _t1_ sep _t2_ ... _tn_ that s consists of
\* from position i on, the texts from Texts and the separators from Spaces;
\* the empty sequence if s is not of this form
RECURSIVE RunTexts(_, _)
RunTexts(s, i) ==
    LET j == SkipNot(s, i + 1, "_")
        t == SubSeq(s, i + 1, j - 1)
        k == SkipNot(s, j + 1, "_")
    IN  IF CharAt(s, i) # "_" \/ j > Len(s) \/ t \notin Texts THEN <<>>
        ELSE IF j = Len(s) THEN <<t>>
        ELSE IF SubSeq(s, j + 1, k - 1) \notin Spaces THEN <<>>
        ELSE IF RunTexts(s, k) = <<>> THEN <<>>
        ELSE <<t>> \o RunTexts(s, k)

\* C8: n >= 2 adjacent underscore runs _t1_ ... _tn_ separated by whitespace
\* are rewritten by consolidate_adjacent_italics to the one run _t1 ... tn_.
C8_UnderscoreRunsMerged ==
    (call = Consolidate /\ mpc = "done") =>
        LET ts == RunTexts(input, 1)
        IN  Len(ts) \in 2..MaxRuns => content = <<"_">> \o Spaced(ts) \o <<"_">>

\* three runs separated by whitespace have been merged into one
C8_Witness ==
    /\ call = Consolidate
    /\ mpc = "done"
    /\ input = Runs(<<"_">>, <<<<"w", "o", "r", "d">>, <<"a">>, <<"b", " ", "c">>>>,
                    <<<<" ">>, <<" ", "\n">>>>)
    /\ content = <<"_", "w", "o", "r", "d", " ", "a", " ", "b", " ", "c", "_">>

\* **a** **b**
TwoBold(a, gap, b) == MixedRuns(<<Rep("*", 2), Rep("*", 2)>>, <<a, b>>, <<gap>>)

\* **a b**, the texts trimmed
OneBold(a, b) == Rep("*", 2) \o Trim(a) \o <<" ">> \o Trim(b) \o Rep("*", 2)

\* C9: **a** **b** is merged by fix_split_bold_formatting into **a b**; in
\* the DOCX pipeline the italic normalization before it leaves the input
\* alone and the passes after it leave the merged run alone.
C9_TwoBoldRunsMerged ==
    \A a \in BoldTexts, b \in BoldTexts, gap \in BoldGaps :
        input = TwoBold(a, gap, b) =>
            /\ (call = Convert /\ mpc = "pattern1") => content = input
            /\ (call = FixBold /\ mpc = "done") => content = OneBold(a, b)
            /\ (call = Convert /\ mpc \in {"underscore", "asterisk", "width",
                                           "height", "done"}) =>
                   content = OneBold(a, b)

\* the pipeline has ended with the two runs merged
C9_Witness ==
    /\ call = Convert
    /\ mpc = "done"
    /\ input = TwoBold(<<"a">>, <<" ">>, <<" ", "b", " ">>)
    /\ content = <<"*", "*", "a", " ", "b", "*", "*">>

\* s holds an attribute block {...} with the key key
HasBlockWith(s, key) ==
    \E i \in DOMAIN s :
        /\ s[i] = "{"
        /\ SkipNot(s, i, "}") <= Len(s)
        /\ \E w \in (i + 1)..(SkipNot(s, i, "}") - 1) :
              /\ HasLit(s, w, key)
              /\ CharAt(s, SkipSpace(s, w + Len(key))) = "="

\* C10: the output of remove_image_dimensions holds no attribute block with
\* a width or a height key, and an image reference followed by a block with
\* width and height becomes exactly the image reference.
C10_DimensionsRemoved ==
    (call = RemoveDims /\ mpc = "done") =>
        /\ ~HasBlockWith(content, width)
        /\ ~HasBlockWith(content, height)
        /\ input = ImageRef \o Block(WidthAttr \o <<" ">> \o HeightAttr) =>
               content = ImageRef

\* blocks with the height key first and with the height key alone are gone
C10_Witness ==
    /\ call = RemoveDims
    /\ mpc = "done"
    /\ input = ImageRef \o Block(HeightAttr \o <<" ">> \o WidthAttr)
               \o Block(HeightAttr)
    /\ content = ImageRef

\* a Markdown buffer without emphasis markers and image references
NoMarkers(s) == \A k \in DOMAIN s : s[k] \notin {"*", "_", "!"}

\* an XML buffer without a figure label
NoFigureLabel(doc) == \A k \in DOMAIN doc : ~IsLabelText(doc[k])

\* C11: no-match safety: a buffer that holds no emphasis markers, no image
\* references and no figure-label pattern is returned identical by every
\* pass (italic normalization, fix_split_bold_formatting,
\* consolidate_adjacent_italics, remove_image_dimensions and the whole DOCX
\* pipeline, parse_figures_for_jats, wrap_body_content_in_sections), also
\* when it holds a brace block with a width or height key that is not
\* attached to an image, or a body with content outside any section.
C11_NoMatchSafety ==
    /\ (mpc = "done" /\ NoMarkers(input)) => content = input
    /\ (fpc = "done" /\ NoFigureLabel(xml)) => fout = xml
    /\ wpc = "done" => result_lines = lines

\* n runs **t** separated by single spaces
BoldRuns(ts) == Runs(Rep("*", 2), ts, [k \in 1..(Len(ts) - 1) |-> <<" ">>])

\* C15: each merge rule of fix_split_bold_formatting is applied once and does
\* not re-scan the adjacencies it created: **a** **b** **c** becomes
\* **a b** **c**, and **a** **b** **c** **d** becomes **a b** **c d**.
C15_RulesAppliedOnce ==
    (call = FixBold /\ mpc = "done") =>
        /\ \A ts \in [1..3 -> BoldTexts] :
               input = BoldRuns(ts) =>
                   content = OneBold(ts[1], ts[2]) \o <<" ">>
                             \o Rep("*", 2) \o ts[3] \o Rep("*", 2)
        /\ \A ts \in [1..4 -> BoldTexts] :
               input = BoldRuns(ts) =>
                   content = OneBold(ts[1], ts[2]) \o <<" ">>
                             \o OneBold(ts[3], ts[4])

\* three runs have become two, and the fourth rule would still merge these
C15_Witness ==
    /\ call = FixBold
    /\ mpc = "done"
    /\ input = BoldRuns(<<<<"a">>, <<"a">>, <<"a">>>>)
    /\ content = <<"*", "*", "a", " ", "a", "*", "*", " ", "*", "*", "a", "*", "*">>
    /\ Sub(pattern4, Rep("*", 2), content) # content

\* \** : the first position from k on that holds no asterisk
RECURSIVE SkipMark(_, _)
SkipMark(s, k) == IF CharAt(s, k) = "*" THEN SkipMark(s, k + 1) ELSE k

\* s from position i on is a whitespace-separated sequence of runs, each
\* opened and closed by the same number (two or three) of asterisks around a
\* text free of asterisks
RECURSIVE WellFormedFrom(_, _)
WellFormedFrom(s, i) ==
    LET t == SkipMark(s, i)
        j == SkipNot(s, t, "*")
        e == SkipMark(s, j)
        n == SkipSpace(s, e)
    IN  /\ t - i \in {2, 3}
        /\ j > t
        /\ e - j = t - i
        /\ e > Len(s) \/ (n > e /\ WellFormedFrom(s, n))

WellFormedRuns(s) == WellFormedFrom(s, 1)

\* C19: fix_split_bold_formatting preserves delimiter well-formedness: a
\* whitespace-separated sequence of well-formed **t** and ***t*** runs, of
\* any length, is rewritten to a whitespace-separated sequence of well-formed
\* runs, each opened and closed by delimiters of equal length, with no stray
\* delimiter characters; the fifth rule matches only where the second run
\* really closes with a single asterisk.
C19_WellFormednessPreserved ==
    (call = FixBold /\ WellFormedRuns(input)) =>
        /\ mpc = "done" => WellFormedRuns(content)
        /\ mpc = "pattern5" =>
               \A i \in DOMAIN content :
                   PairAt(content, i, pattern5).ok =>
                       CharAt(content, PairAt(content, i, pattern5).end + 1) # "*"

\* the number of characters d in s
Count(s, d) == Len(SelectSeq(s, LAMBDA c : c = d))

\* the number of iterations the loop `while previous_content != content:
\* previous_content = content; content = re.sub(...)` makes on s
RECURSIVE Iterations(_, _, _)
Iterations(pat, mark, s) ==
    IF Sub(pat, mark, s) = s THEN 1
    ELSE 1 + Iterations(pat, mark, Sub(pat, mark, s))

\* one of the two loops is entered
LoopEntered == mpc \in {"underscore", "asterisk"} /\ previous_content = None

\* the pattern and the delimiter of the loop under way
LoopPattern == IF mpc = "underscore" THEN underscore_pattern ELSE asterisk_pattern

LoopMark == IF mpc = "underscore" THEN "_" ELSE "*"

\* the variant of the loop under way: twice the delimiter count of the
\* buffer, plus one while the loop condition previous_content != content holds
Variant(prev, cont) == 2 * Count(cont, LoopMark) + (IF prev # cont THEN 1 ELSE 0)

\* C16: both fixed-point loops of consolidate_adjacent_italics terminate on
\* every input: every iteration that changes the buffer strictly decreases
\* the number of delimiter characters (each merged pair replaces four
\* delimiters by two), so every iteration strictly decreases the variant
\* and the loop cannot oscillate; the number of iterations of a loop is at
\* most half the delimiter count at its entry plus one.
C16_LoopsTerminate ==
    [][(mpc \in {"underscore", "asterisk"} /\ mpc' = mpc) =>
          /\ Variant(previous_content', content') < Variant(previous_content, content)
          /\ content' # content =>
                 /\ Count(content', LoopMark) < Count(content, LoopMark)
                 /\ (Count(content, LoopMark) - Count(content', LoopMark)) % 2 = 0
          /\ LoopEntered =>
                 2 * Iterations(LoopPattern, <<LoopMark>>, content)
                     <= Count(content, LoopMark) + 2]_vars

\* the asterisk loop is in its third iteration, two of three runs merged
\* away and four of six delimiters gone
C16_Witness ==
    /\ call = Consolidate
    /\ mpc = "asterisk"
    /\ input = Runs(<<"*">>, <<<<"a">>, <<"a">>, <<"a">>>>, <<<<" ">>, <<" ">>>>)
    /\ previous_content = <<"*", "a", " ", "a", "*", " ", "*", "a", "*">>
    /\ content = <<"*", "a", " ", "a", " ", "a", "*">>

(***************************************************************************)
(* main and the convert functions: claims                                  *)
(***************************************************************************)
\* a post-processing pass has been entered
PassEntered == mpc # "idle" \/ fpc # "idle" \/ wpc # "idle"

\* C12: when the engine call fails (non-zero status), the convert function
\* under way, convert_docx_to_markdown or convert_markdown_to_xml, returns
\* False without running any post-processing pass and without writing the
\* output file; passes run, and the output file is written, only after the
\* engine call has returned successfully.
C12_EngineFailureSkipsPasses ==
    /\ result = "CalledProcessError" =>
           /\ ~PassEntered
           /\ ~written
           /\ success = "False"
           /\ pc \in {"returned", "exit(1)"}
    /\ (PassEntered \/ written) => result = "CompletedProcess"

\* the engine has failed on a Markdown input, leaving a partial output file
\* behind, and main has exited with status 1
C12_Witness ==
    /\ pc = "exit(1)"
    /\ input_ext = ".md"
    /\ call = ConvertXml
    /\ result = "CalledProcessError"
    /\ output_exists
    /\ success = "False"

\* the loop `while previous_content != content` run to its end on s
RECURSIVE FixedPoint(_, _, _)
FixedPoint(pat, mark, s) ==
    IF Sub(pat, mark, s) = s THEN s
    ELSE FixedPoint(pat, mark, Sub(pat, mark, s))

\* the passes of the DOCX direction as functions of their argument
fix_split_bold_formatting(s) ==
    Sub(pattern5, Rep("*", 3),
        Sub(pattern4, Rep("*", 2),
            Sub(pattern3, Rep("*", 3),
                Sub(pattern2, Rep("*", 3), Sub(pattern1, Rep("*", 3), s)))))

consolidate_adjacent_italics(s) ==
    FixedPoint(asterisk_pattern, <<"*">>, FixedPoint(underscore_pattern, <<"_">>, s))

remove_image_dimensions(s) == StripDimension(height, StripDimension(width, s))

\* C13: within one invocation exactly one direction's pass sequence runs,
\* each pass consuming the complete output of the one before, in fixed
\* order: for a DOCX input italic normalization, fix_split_bold_formatting,
\* consolidate_adjacent_italics, remove_image_dimensions; for a Markdown
\* input parse_figures_for_jats, then wrap_body_content_in_sections.  No
\* pass of the other direction runs, and an unsupported extension runs no
\* pass at all.
C13_OneDirectionInOrder ==
    /\ input_ext = ".docx" =>
           /\ fpc = "idle" /\ wpc = "idle"
           /\ call \in {"none", Convert}
    /\ input_ext = ".md" =>
           /\ mpc = "idle"
           /\ call \in {"none", ConvertXml}
    /\ input_ext \notin {".docx", ".md"} =>
           ~PassEntered /\ ~written /\ call = "none"
    /\ mpc = "pattern1" => content = NormalizeItalics(input)
    /\ (mpc = "underscore" /\ previous_content = None) =>
           content = fix_split_bold_formatting(NormalizeItalics(input))
    /\ mpc = "width" =>
           content = consolidate_adjacent_italics(
                         fix_split_bold_formatting(NormalizeItalics(input)))
    /\ (mpc = "done" \/ (call = Convert /\ written)) =>
           /\ content = remove_image_dimensions(
                            consolidate_adjacent_italics(
                                fix_split_bold_formatting(NormalizeItalics(input))))
           /\ written => output_file = content
    /\ fpc = "done" => fpos = Len(xml) + 1
    /\ wpc # "idle" =>
           /\ fpc = "done"
           /\ lines = SplitLines(BodyContent(fout))
    /\ (call = ConvertXml /\ written) =>
           /\ fpc = "done"
           /\ BodyMatch(fout).ok => wpc = "done" /\ output_file = Rewrapped(fout)
           /\ ~BodyMatch(fout).ok => wpc = "idle" /\ output_file = fout

\* a Markdown input has gone through the figure pass and then the section
\* wrapper: the figure and the orphan paragraph behind it stand in one
\* synthesized section of the written file
C13_Witness ==
    /\ pc = "exit(0)"
    /\ input_ext = ".md"
    /\ written
    /\ xml = Article(<<LabelPara("Figure 1", <<>>),
                       ImagePara("img.png", "png", <<Text("Sample caption")>>),
                       P1>>)
    /\ Len(Elements(output_file, "fig")) = 1
    /\ Len(Elements(output_file, "sec")) = 1
    /\ Len(Elements(output_file, "inline-graphic")) = 0

====
